---- MODULE Spec2Model ----
(***************************************************************************)
(* Model of modules/multicast/source.c: the multicast audio source        *)
(* (struct mcsource), its start/unwind/destructor, the capture and        *)
(* announcement ("gong") callbacks, the pipeline iteration                *)
(* poll_aubuf_tx/send_af and the transmit thread tx_thread.               *)
(***************************************************************************)
EXTENDS Integers, Sequences, FiniteSets, TLC

\* ------------------------------------------------------------------------
\* Program constants
\* ------------------------------------------------------------------------
\* Packet time in ms (PTIME, used at source.c:175)
PTIME == 20
\* aufmt_sample_size(AUFMT_S16LE) (source.c:479)
SampleSize == 2
\* AUDIO_SAMPSZ, the maximum number of samples of one frame (source.c:479)
AUDIO_SAMPSZ == 5760
\* the ring buffer holds at most 30 maximum-size frames (source.c:485)
AubufFrames == 30
\* the catch-up loop of a read callback (source.c:254, source.c:312)
MaxPollIter == 16
\* sys_msleep(4) in the transmit thread (source.c:337)
SleepQuantum == 4
\* 2^16: ts_ext is a uint32_t (source.c:56), kept as two 16-bit halves
\* [hi, lo] so that its 32-bit wrap-around is the code's
W16 == 65536
\* default file_srate (source.c:402) and default capture rate (source.c:453)
DefaultSrate == 16000
\* default capture channel count (source.c:455)
DefaultMicCh == 2
\* announcement channel count (source.c:403)
GongCh == 1
\* errno values returned by the code
EINVAL == 22
ENOMEM == 12
ENOTSUP == 95

\* ------------------------------------------------------------------------
\* Bounds of the model
\* ------------------------------------------------------------------------
\* frames the read callbacks of the two drivers write to the ring buffer,
\* in total; a callback that returns at once (mic_muted, eof) or whose
\* frame is lost on the null buffer is not counted
MaxCalls == 2
\* loop passes of the transmit thread
MaxPasses == 2

\* a uint32_t value from its halves
U32(hi, lo) == [hi |-> hi % W16, lo |-> lo % W16]
\* x + n on a uint32_t, for 0 <= n < 2^31 (source.c:143, 151)
U32Add(x, n) ==
    LET lo == x.lo + (n % W16)
        hi == x.hi + ((n \div W16) % W16) + (lo \div W16)
    IN  U32(hi, lo)
\* a < b on uint32_t values
U32Less(a, b) == a.hi < b.hi \/ (a.hi = b.hi /\ a.lo < b.lo)

\* ------------------------------------------------------------------------
\* Inputs of the environment
\* ------------------------------------------------------------------------
\* struct aucodec: sample rate, RTP clock rate, channels, whether the codec
\* has an encoder-state allocator (encupdh) and an encode handler (ench)
Codecs ==
    { [name |-> "pcmu", srate |-> 8000,  crate |-> 8000, ch |-> 1,
       encupdh |-> FALSE, ench |-> TRUE],
      [name |-> "g722", srate |-> 16000, crate |-> 8000, ch |-> 1,
       encupdh |-> TRUE, ench |-> TRUE] }
NoCodec == [name |-> "null", srate |-> 0, crate |-> 0, ch |-> 0,
            encupdh |-> FALSE, ench |-> FALSE]

\* cfg->txmode; "other" stands for any mode start_transmitte rejects
TxModes == {"poll", "thread", "other"}
\* cfg->srate_src / cfg->channels_src (0 = not configured) and cfg->src_fmt
CfgSrc == { [srate_src |-> 0, channels_src |-> 0, src_fmt |-> "s16le"],
            [srate_src |-> 0, channels_src |-> 0, src_fmt |-> "float"],
            [srate_src |-> 8000, channels_src |-> 1,
             src_fmt |-> "s24_3le"] }
\* conf "file_srate" (source.c:405)
FileSrates == {DefaultSrate}
\* values rand_u32() can return (source.c:675)
RandValues == {U32(0, 1000), U32(W16 - 1, W16 - 100)}
\* results of the codec's encode handler: err is 0, a partial-consume code
\* 0x0001dddd or an errno, len the payload length it leaves; the codec is
\* taken to leave the marker it is handed by reference as it is
EncErrs == {0, W16 + 160, EINVAL}
EncLens == {0, 40}
\* results of the send handler: 0, or an errno (5 = EIO)
SendErrs == {0, 5}
\* codes the announcement driver reports: 0 = end of file, or an errno
GongErrs == {0, 5}
\* where mcsource_start can fail
FailPoints == {"none", "zalloc", "mtx", "codec", "strdup", "gong_conf",
               "gong_optdup", "gong_find", "gong", "mic_find", "mic",
               "aubuf", "sampv", "sampv_rs", "rtp_mb", "thread"}

Ctx == {"mic", "gong", "thr"}

VARIABLES
    main,       \* the owner: "init", its position in mcsource_start
                \* ("s_gong" .. "s_ret"), "running", "unwinding", "failed",
                \* "destroying", "dead"; "crashed" when the process died
    cfg,        \* the configuration: txmode, srate_src, channels_src,
                \* src_fmt, file_srate
    call,       \* the call of mcsource_start: its arguments and what its
                \* collaborators answer (ac, gong, fail, rnd)
    src,        \* the scalar fields of struct mcsource
    alive,      \* the resources of struct mcsource currently allocated
    aubuf,      \* content of the ring buffer: chunks [from, n] (n bytes)
    lock,       \* holder of src->lock between two steps ("" = free)
    cpc,        \* position of each context (mic, gong driver, tx thread)
    it,         \* per context: the frame and counters of its iteration
    thr,        \* tx_thread locals: ts, passes; the clock now; the first
                \* value of ts (anchor) and the iterations the thread began
    dpc,        \* position of mcsource_destructor
    ret,        \* result of mcsource_start: err and *srcp
    sent,       \* packets handed to the send handler: how many, the
                \* first and the last
    hist        \* history of events the properties refer to

vars == <<main, cfg, call, src, alive, aubuf, lock, cpc, it, thr, dpc,
          ret, sent, hist>>

\* ------------------------------------------------------------------------
\* Library operations the code calls (re/rem), by their contract
\* ------------------------------------------------------------------------
RECURSIVE CurSize(_)
\* aubuf_cur_size: bytes buffered (source.c:255, 313, 348)
CurSize(b) == IF b = <<>> THEN 0 ELSE Head(b).n + CurSize(Tail(b))

RECURSIVE DropBytes(_, _)
\* remove the n oldest bytes of the buffer
DropBytes(b, n) ==
    IF n = 0 \/ b = <<>> THEN b
    ELSE IF Head(b).n <= n THEN DropBytes(Tail(b), n - Head(b).n)
    ELSE <<[from |-> Head(b).from, n |-> Head(b).n - n]>> \o Tail(b)

\* capacity handed to aubuf_alloc (source.c:479-485)
AubufMax == AUDIO_SAMPSZ * SampleSize * AubufFrames

\* aubuf_write_auframe of n bytes coming from `from` (source.c:249, 307):
\* append, then discard the oldest data above the capacity
AubufWrite(b, from, n) ==
    LET app == IF n = 0 THEN b
               ELSE IF b # <<>> /\ b[Len(b)].from = from
                    THEN [b EXCEPT ![Len(b)].n = @ + n]
                    ELSE Append(b, [from |-> from, n |-> n])
        over == CurSize(app) - AubufMax
    IN  IF over > 0 THEN DropBytes(app, over) ELSE app

Min(a, b) == IF a < b THEN a ELSE b

\* aubuf_read_auframe (source.c:185): takes the requested bytes, as many as
\* are buffered; the shortfall is silence
AubufRead(b, want) == DropBytes(b, Min(want, CurSize(b)))

\* struct auresamp after auresamp_init (source.c:280, 678)
ResampInit == [ratio |-> 0, up |-> FALSE, irate |-> 0, ich |-> 0,
               orate |-> 0, och |-> 0]

\* auresamp_setup (source.c:191): error code, 0 on success
ResampSetupErr(irate, ich, orate, och) ==
    IF irate = 0 \/ ich = 0 \/ orate = 0 \/ och = 0 THEN EINVAL
    ELSE IF orate = irate /\ och = ich THEN 0
    ELSE IF orate >= irate
         THEN IF orate % irate # 0 \/ ich > 2 \/ och > 2 THEN ENOTSUP ELSE 0
         ELSE IF irate % orate # 0 \/ ich > 2 \/ och > 2 THEN ENOTSUP ELSE 0

\* auresamp_setup (source.c:191): the configuration it leaves on success
ResampSetup(irate, ich, orate, och) ==
    IF orate = irate /\ och = ich THEN ResampInit
    ELSE [ratio |-> IF orate >= irate THEN orate \div irate
                    ELSE irate \div orate,
          up |-> (orate >= irate), irate |-> irate, ich |-> ich,
          orate |-> orate, och |-> och]

\* auresamp (source.c:202): <<err, outc>> for inc input samples and an
\* output capacity of cap samples
Resamp(rs, cap, inc) ==
    IF rs.ratio = 0 THEN <<EINVAL, cap>>
    ELSE LET incc == inc \div rs.ich
             outcc == IF rs.up THEN incc * rs.ratio ELSE incc \div rs.ratio
         IN  IF cap < outcc * rs.och \/ (~rs.up /\ cap < inc)
             THEN <<ENOMEM, cap>>
             ELSE <<0, outcc * rs.och>>

\* ------------------------------------------------------------------------
\* Pure computations of source.c
\* ------------------------------------------------------------------------
\* aufmt_sample_size (source.c:243, 300, 332): bytes of one sample
SampleSizeOf(fmt) ==
    CASE fmt = "s16le"   -> SampleSize
      [] fmt = "float"   -> 4
      [] fmt = "s24_3le" -> 3
      [] OTHER           -> 0

\* package_size of the read callbacks and the thread (source.c:242-243,
\* 299-300, 331-332) for the format of the handler's source parameters
PackageSize(ac, fmt) ==
    ((ac.srate * ac.ch * PTIME) \div 1000) * SampleSizeOf(fmt)

\* sampc of the frame poll_aubuf_tx requests (source.c:175, 179)
FrameSampc(prm) == (prm.srate * prm.ch * PTIME) \div 1000

\* setup_ausrc_mic: the capture parameters (source.c:452-456)
MicPrm(c) ==
    [fmt   |-> c.src_fmt,
     srate |-> IF c.srate_src # 0 THEN c.srate_src ELSE DefaultSrate,
     ch    |-> IF c.channels_src # 0 THEN c.channels_src ELSE DefaultMicCh]

\* setup_ausrc_gong: the announcement parameters (source.c:408-411)
GongPrm(fsrate) == [fmt |-> "s16le", srate |-> fsrate, ch |-> GongCh]

\* struct ausrc_prm after mem_zalloc: AUFMT_S16LE is the zero of enum aufmt
ZeroPrm == [fmt |-> "s16le", srate |-> 0, ch |-> 0]

\* partial-consume test of send_af (source.c:122)
IsPartial(err) == err \div W16 = 1

\* EncodeFailed without the error branch
EncodeFailed_Ignored(err) == FALSE

\* the encode error that drops the frame (source.c:126-129)
EncodeFailed(err) == ~IsPartial(err) /\ err # 0

\* ts_delta of send_af (source.c:123)
TsDelta(err) == IF IsPartial(err) THEN err % W16 ELSE 0

\* frame duration in codec clock ticks (source.c:149-150)
FrameTicks(sampc, ac) == ((sampc * ac.crate) \div ac.srate) \div ac.ch

\* global filter list baresip_aufiltl(): name, whether the filter has an
\* encode-side handler, whether that handler fails at setup
GlobalFilters ==
    << [name |-> "vumeter", encupdh |-> TRUE, fails |-> FALSE],
       [name |-> "plc", encupdh |-> FALSE, fails |-> FALSE],
       [name |-> "aec", encupdh |-> TRUE, fails |-> TRUE],
       [name |-> "gain", encupdh |-> TRUE, fails |-> FALSE] >>

RECURSIVE SetupAufilt(_)
\* setup_aufilt (source.c:535-552): the filters with an encode handler whose
\* setup succeeds, in list order
SetupAufilt(l) ==
    IF l = <<>> THEN <<>>
    ELSE IF Head(l).encupdh /\ ~Head(l).fails
         THEN <<Head(l).name>> \o SetupAufilt(Tail(l))
         ELSE SetupAufilt(Tail(l))

\* ------------------------------------------------------------------------
\* Initial state: before mcsource_start, the configuration is loaded
\* ------------------------------------------------------------------------
\* jiffies when the program starts (tmr_jiffies, source.c:342)
StartJiffies == 1000

\* struct mcsource after mem_zalloc (source.c:618)
ZeroSrc ==
    [cfgSet |-> FALSE, ac |-> NoCodec, gong |-> FALSE,
     gong_prm |-> ZeroPrm, mic_prm |-> ZeroPrm,
     eof |-> FALSE, mic_muted |-> FALSE, resamp |-> ResampInit,
     filtl |-> <<>>, rtp_marker |-> FALSE, ts_ext |-> U32(0, 0),
     ts_base |-> U32(0, 0),
     run |-> FALSE, sendh |-> FALSE, eofh |-> FALSE]

\* the locals of a context outside an iteration; sampv tells whether the
\* frame's sample pointer is set, filt lists the filters of the chain that
\* were run on the frame, ld and ticks are the value send_af loaded from
\* ts_ext and the ticks it is about to add
ZeroIt == [srate |-> 0, ch |-> 0, sampc |-> 0, eofRead |-> FALSE,
           sampv |-> FALSE, got |-> 0, i |-> 0, gate |-> 0, filt |-> <<>>,
           ld |-> U32(0, 0), ticks |-> 0]

ZeroHist == [calls |-> 0, gongEnd |-> "", runFalls |-> 0, uninit |-> FALSE,
             stopAt |-> "", afterStop |-> 0, rej |-> 0]

\* no packet
NoPkt == [marker |-> FALSE, ts |-> U32(0, 0)]

\* the configurations and calls the model runs
Configs ==
    { [txmode |-> m, srate_src |-> c.srate_src,
       channels_src |-> c.channels_src, src_fmt |-> c.src_fmt,
       file_srate |-> fs] :
      m \in TxModes, c \in CfgSrc, fs \in FileSrates }
Calls ==
    { c \in [ac : Codecs \cup {NoCodec}, gong : BOOLEAN, fail : FailPoints,
             rnd : RandValues] :
        /\ c.fail \in {"strdup", "gong_conf", "gong_optdup", "gong_find",
                      "gong"} => c.gong
        /\ c.fail = "codec" => c.ac.encupdh
        \* the base next to 2^32 is run on a start that succeeds, with an
        \* announcement and the codec that has an encoder state
        /\ c.rnd.hi # 0 => (c.fail = "none" /\ c.gong /\ c.ac.encupdh) }

InitWith(configs, calls) ==
    /\ main = "init"
    /\ cfg \in configs
    /\ call \in calls
    /\ call.fail = "thread" => cfg.txmode = "thread"
    \* the base next to 2^32 is run in poll mode on the default capture
    /\ call.rnd.hi # 0 => (cfg.txmode = "poll" /\ cfg.src_fmt = "s16le")
    \* the 8 kHz mono capture in 24-bit samples is run with the 8 kHz codec
    \* in poll mode
    /\ cfg.src_fmt = "s24_3le" =>
          (call.ac.name # "g722" /\ cfg.txmode = "poll")
    \* a transmit mode start rejects is run on the default capture
    /\ cfg.txmode = "other" => cfg.src_fmt = "s16le"
    /\ src = ZeroSrc
    /\ alive = {}
    /\ aubuf = <<>>
    /\ lock = ""
    /\ cpc = [c \in Ctx |-> "off"]
    /\ it = [c \in Ctx |-> ZeroIt]
    /\ thr = [ts |-> 0, now |-> StartJiffies, passes |-> 0, anchor |-> 0,
              iters |-> 0]
    /\ dpc = "none"
    /\ ret = [err |-> 0, srcp |-> FALSE, returned |-> FALSE]
    /\ sent = [n |-> 0, first |-> NoPkt, last |-> NoPkt]
    /\ hist = ZeroHist

Init == InitWith(Configs, Calls)

\* ------------------------------------------------------------------------
\* mcsource_start (source.c:608-700). The two drivers are started partway
\* through (alloch, source.c:423, 460) and deliver callbacks from then on,
\* so start is a sequence of steps the callbacks interleave with
\* ------------------------------------------------------------------------
\* goto out with err != 0: mem_deref runs the destructor (source.c:693-695)
StartFails(err) ==
    /\ main' = "unwinding"
    /\ dpc' = "sw"
    /\ ret' = [err |-> err, srcp |-> FALSE, returned |-> FALSE]

\* the process dies on a write or call through a null pointer
Crash ==
    /\ main' = "crashed"
    /\ dpc' = "crashed"
    /\ cpc' = [c \in Ctx |-> "off"]
    /\ it' = [c \in Ctx |-> ZeroIt]

\* source.c:615-647: the argument check, the allocation of the Source, the
\* mutex, cfg, the codec, and for an announcement the two flags and the
\* copy of the file name; no driver runs yet
StartInit(ac, gong, f) ==
    /\ main = "init"
    /\ IF ac = NoCodec \/ f = "zalloc"
       THEN \* nothing was allocated: return at once (source.c:615-620)
            /\ main' = "failed"
            /\ ret' = [err |-> IF ac = NoCodec THEN EINVAL ELSE ENOMEM,
                       srcp |-> FALSE, returned |-> TRUE]
            /\ UNCHANGED <<src, alive, dpc>>
       ELSE IF f = "mtx"
       THEN /\ StartFails(ENOMEM)
            /\ UNCHANGED <<src, alive>>
       ELSE IF f = "codec"
       THEN /\ StartFails(EINVAL)
            /\ src' = [src EXCEPT !.cfgSet = TRUE, !.ac = ac]
            /\ alive' = {"lock"}
       ELSE /\ src' = [src EXCEPT !.cfgSet = TRUE, !.ac = ac,
                                  !.gong = gong, !.mic_muted = gong,
                                  !.eof = FALSE]
            /\ alive' = {"lock"}
                   \cup (IF ac.encupdh THEN {"enc"} ELSE {})
                   \cup (IF gong /\ f # "strdup" THEN {"gong_filename"}
                         ELSE {})
            /\ IF f = "strdup"
               THEN StartFails(ENOMEM)
               ELSE /\ main' = IF gong THEN "s_gong" ELSE "s_mic"
                    /\ UNCHANGED <<dpc, ret>>
    /\ UNCHANGED <<cfg, call, aubuf, lock, cpc, it, thr, sent, hist>>

\* setup_ausrc_gong (source.c:391-433)
StartGong(f) ==
    /\ main = "s_gong"
    /\ IF f = "gong_conf"
       THEN \* conf has no file_ausrc (source.c:401, 427-428)
            /\ StartFails(EINVAL)
            /\ UNCHANGED <<src, alive, cpc>>
       ELSE /\ src' = [src EXCEPT !.gong_prm = GongPrm(cfg.file_srate)]
            /\ IF f = "gong_optdup"
               THEN StartFails(ENOMEM) /\ UNCHANGED <<alive, cpc>>
               ELSE IF f = "gong_find"
               THEN StartFails(ENOTSUP) /\ UNCHANGED <<alive, cpc>>
               ELSE IF f = "gong"
               THEN StartFails(EINVAL) /\ UNCHANGED <<alive, cpc>>
               ELSE /\ alive' = alive \cup {"src_gong_st"}
                    /\ cpc' = [cpc EXCEPT !["gong"] = "idle"]
                    /\ main' = "s_mic"
                    /\ UNCHANGED <<dpc, ret>>
    /\ UNCHANGED <<cfg, call, aubuf, lock, it, thr, sent, hist>>

\* setup_ausrc_mic (source.c:444-467)
StartMic(f) ==
    /\ main = "s_mic"
    /\ IF f = "mic_find"
       THEN \* ausrc_find returned NULL (source.c:449-450)
            /\ StartFails(EINVAL)
            /\ UNCHANGED <<src, alive, cpc>>
       ELSE /\ src' = [src EXCEPT !.mic_prm = MicPrm(cfg)]
            /\ IF f = "mic"
               THEN StartFails(EINVAL) /\ UNCHANGED <<alive, cpc>>
               ELSE /\ alive' = alive \cup {"src_mic_st"}
                    /\ cpc' = [cpc EXCEPT !["mic"] = "idle"]
                    /\ main' = "s_aubuf"
                    /\ UNCHANGED <<dpc, ret>>
    /\ UNCHANGED <<cfg, call, aubuf, lock, it, thr, sent, hist>>

\* setup_buffers: aubuf_alloc (source.c:485-490)
StartAubuf(f) ==
    /\ main = "s_aubuf"
    /\ IF f = "aubuf"
       THEN StartFails(ENOMEM) /\ UNCHANGED alive
       ELSE /\ alive' = alive \cup {"aubuf"}
            /\ main' = "s_sampv"
            /\ UNCHANGED <<dpc, ret>>
    /\ UNCHANGED <<cfg, call, src, aubuf, lock, cpc, it, thr, sent, hist>>

\* setup_buffers: src->sampv = mem_zalloc(...) (source.c:492); the result
\* is tested only after the second allocation
StartSampv(f) ==
    /\ main = "s_sampv"
    /\ alive' = alive \cup (IF f = "sampv" THEN {} ELSE {"sampv"})
    /\ main' = "s_sampv_rs"
    /\ UNCHANGED <<cfg, call, src, aubuf, lock, cpc, it, thr, dpc, ret,
                   sent, hist>>

\* setup_buffers: src->sampv_rs = mem_zalloc(...) and the test of both
\* pointers (source.c:493-499)
StartSampvRs(f) ==
    /\ main = "s_sampv_rs"
    /\ alive' = alive \cup (IF f = "sampv_rs" THEN {} ELSE {"sampv_rs"})
    /\ IF f \in {"sampv", "sampv_rs"}
       THEN StartFails(ENOMEM)
       ELSE main' = "s_rtp_mb" /\ UNCHANGED <<dpc, ret>>
    /\ UNCHANGED <<cfg, call, src, aubuf, lock, cpc, it, thr, sent, hist>>

\* setup_buffers: mbuf_alloc (source.c:501-506)
StartRtpMb(f) ==
    /\ main = "s_rtp_mb"
    /\ IF f = "rtp_mb"
       THEN StartFails(ENOMEM) /\ UNCHANGED alive
       ELSE /\ alive' = alive \cup {"rtp_mb"}
            /\ main' = "s_handlers"
            /\ UNCHANGED <<dpc, ret>>
    /\ UNCHANGED <<cfg, call, src, aubuf, lock, cpc, it, thr, sent, hist>>

\* mc_src->sendh = sendh (source.c:672). The stores at source.c:672-674
\* are plain stores made while the driver callbacks already run, and the
\* compiler is free to order them: either handler can be the first one a
\* callback finds set. Both are in memory before rand_u32() is called
\* (source.c:675)
StartSendh ==
    /\ main = "s_handlers"
    /\ ~src.sendh
    /\ src' = [src EXCEPT !.sendh = TRUE]
    /\ main' = IF src.eofh THEN "s_rand" ELSE main
    /\ UNCHANGED <<cfg, call, alive, aubuf, lock, cpc, it, thr, dpc, ret,
                   sent, hist>>

\* mc_src->eofh = eofh; mc_src->arg = arg (source.c:673-674), before or
\* after the store of sendh
StartEofh ==
    /\ main = "s_handlers"
    /\ ~src.eofh
    /\ src' = [src EXCEPT !.eofh = TRUE]
    /\ main' = IF src.sendh THEN "s_rand" ELSE main
    /\ UNCHANGED <<cfg, call, alive, aubuf, lock, cpc, it, thr, dpc, ret,
                   sent, hist>>

\* mc_src->ts_ext = mc_src->ts_base = rand_u32() (source.c:675)
StartRand(rnd) ==
    /\ main = "s_rand"
    /\ src' = [src EXCEPT !.ts_ext = rnd, !.ts_base = rnd]
    /\ main' = "s_resamp"
    /\ UNCHANGED <<cfg, call, alive, aubuf, lock, cpc, it, thr, dpc, ret,
                   sent, hist>>

\* auresamp_init(&mc_src->resamp) (source.c:678)
StartResamp ==
    /\ main = "s_resamp"
    /\ src' = [src EXCEPT !.resamp = ResampInit]
    /\ main' = "s_filt"
    /\ UNCHANGED <<cfg, call, alive, aubuf, lock, cpc, it, thr, dpc, ret,
                   sent, hist>>

\* setup_aufilt(mc_src, baresip_aufiltl()) (source.c:681)
StartFilt ==
    /\ main = "s_filt"
    /\ src' = [src EXCEPT !.filtl = SetupAufilt(GlobalFilters)]
    /\ alive' = alive \cup {"filtl"}
    /\ main' = "s_tx"
    /\ UNCHANGED <<cfg, call, aubuf, lock, cpc, it, thr, dpc, ret, sent,
                   hist>>

\* start_transmitte (source.c:565-593, called at 688): the thread it
\* creates runs from thread_create_name on
StartTx(f) ==
    /\ main = "s_tx"
    /\ IF cfg.txmode = "poll"
       THEN /\ main' = "s_ret"
            /\ UNCHANGED <<src, cpc, dpc, ret, hist>>
       ELSE IF cfg.txmode = "thread"
       THEN IF f = "thread"
            THEN \* thr.run is set and cleared again (source.c:576-580)
                 /\ StartFails(ENOMEM)
                 /\ hist' = [hist EXCEPT !.runFalls = @ + 1]
                 /\ UNCHANGED <<src, cpc>>
            ELSE /\ src' = [src EXCEPT !.run = TRUE]
                 /\ cpc' = [cpc EXCEPT !["thr"] = "while"]
                 /\ main' = "s_ret"
                 /\ UNCHANGED <<dpc, ret, hist>>
       ELSE /\ StartFails(ENOTSUP)
            /\ UNCHANGED <<src, cpc, hist>>
    /\ UNCHANGED <<cfg, call, alive, aubuf, lock, it, thr, sent>>

\* *srcp = mc_src; return err (source.c:689-699)
StartRet ==
    /\ main = "s_ret"
    /\ main' = "running"
    /\ ret' = [err |-> 0, srcp |-> TRUE, returned |-> TRUE]
    /\ UNCHANGED <<cfg, call, src, alive, aubuf, lock, cpc, it, thr, dpc,
                   sent, hist>>

\* ------------------------------------------------------------------------
\* The pipeline iteration: poll_aubuf_tx (source.c:167-213) and send_af
\* (source.c:109-156), run by context c (a read callback or the thread)
\* ------------------------------------------------------------------------
\* a driver delivers callbacks from its alloch until its handle is
\* released (source.c:423, 460, 87, 88), as long as the process lives
Delivering(h) == h \in alive /\ main # "crashed"

\* FramePrm with the two branches exchanged
FramePrm_Swapped(s) == IF s.eof THEN s.gong_prm ELSE s.mic_prm

\* the parameters poll_aubuf_tx builds its frame with (source.c:174-182)
FramePrm(s) == IF ~s.eof THEN s.gong_prm ELSE s.mic_prm

\* the end of an iteration of context c: back to the caller's loop
Finish(c, itc) ==
    /\ cpc' = [cpc EXCEPT ![c] = IF c = "thr" THEN "while" ELSE "loop"]
    \* the frame dies with the call; a read callback counts the pass
    /\ it' = [it EXCEPT ![c] = [ZeroIt EXCEPT !.i =
                                  IF c = "thr" THEN 0 ELSE itc.i + 1]]
    \* the thread advances its virtual clock after the call (source.c:351)
    /\ thr' = IF c = "thr" THEN [thr EXCEPT !.ts = @ + PTIME] ELSE thr

\* source.c:173-183: under the lock, read eof and set up the frame, which
\* takes the pointer src->sampv as it is now
Build(c) ==
    /\ cpc[c] = "build"
    /\ lock = ""
    /\ LET prm == FramePrm(src)
       IN  it' = [it EXCEPT ![c] = [@ EXCEPT !.srate = prm.srate,
                                            !.ch = prm.ch,
                                            !.sampc = FrameSampc(prm),
                                            !.eofRead = src.eof,
                                            !.sampv = "sampv" \in alive,
                                            !.got = 0,
                                            !.filt = <<>>]]
    /\ cpc' = [cpc EXCEPT ![c] = "read"]
    /\ UNCHANGED <<main, cfg, call, src, alive, aubuf, lock, thr, dpc,
                   ret, sent, hist>>

\* source.c:185-186: read the frame from the ring buffer into the frame's
\* samples; a frame set up before setup_buffers allocated sampv
\* (source.c:492), or while a failed start unwinds, has a null pointer
ReadFrame(c) ==
    /\ cpc[c] = "read"
    /\ LET want == it[c].sampc * SampleSize
       IN  IF want > 0 /\ ~it[c].sampv
           THEN Crash /\ UNCHANGED aubuf
           ELSE /\ it' = [it EXCEPT ![c].got = Min(want, CurSize(aubuf))]
                /\ aubuf' = AubufRead(aubuf, want)
                /\ cpc' = [cpc EXCEPT ![c] = IF it[c].srate # src.ac.srate
                                             THEN "setup" ELSE "send"]
                /\ UNCHANGED <<main, dpc>>
    /\ UNCHANGED <<cfg, call, src, alive, lock, thr, ret, sent, hist>>

\* source.c:187-200: under the lock, set the resampler up when it is not
SetupResamp(c) ==
    /\ cpc[c] = "setup"
    /\ lock = ""
    /\ LET e == ResampSetupErr(it[c].srate, it[c].ch,
                               src.ac.srate, src.ac.ch)
       IN  IF src.resamp.ratio = 0 /\ e # 0
           THEN /\ Finish(c, it[c])
                /\ UNCHANGED src
           ELSE /\ src' = IF src.resamp.ratio = 0
                          THEN [src EXCEPT !.resamp =
                                  ResampSetup(it[c].srate, it[c].ch,
                                              src.ac.srate, src.ac.ch)]
                          ELSE src
                /\ cpc' = [cpc EXCEPT ![c] = "conv"]
                /\ UNCHANGED <<it, thr>>
    /\ UNCHANGED <<main, cfg, call, alive, aubuf, lock, dpc, ret,
                   sent, hist>>

\* source.c:202-209: convert the frame into sampv_rs; null before
\* source.c:493 and when a failed start unwinds after that allocation
\* failed
Convert(c) ==
    /\ cpc[c] = "conv"
    /\ LET r == Resamp(src.resamp, it[c].sampc, it[c].sampc)
       IN  IF r[1] # 0
           THEN Finish(c, it[c]) /\ UNCHANGED <<main, dpc>>
           ELSE IF "sampv_rs" \notin alive
           THEN Crash /\ UNCHANGED thr
           ELSE /\ it' = [it EXCEPT ![c].sampc = r[2]]
                /\ cpc' = [cpc EXCEPT ![c] = "send"]
                /\ UNCHANGED <<thr, main, dpc>>
    /\ UNCHANGED <<cfg, call, src, alive, aubuf, lock, ret, sent, hist>>

\* the 32-bit timestamp handed to the sender (source.c:134)
RtpTs(ts_ext) == U32(ts_ext.hi, ts_ext.lo)

\* src->ts_ext += n (source.c:143, 151)
TsAdd(ts_ext, n) == U32Add(ts_ext, n)

\* send_af (source.c:109-156) on a frame of sampc samples, for the codec
\* result e = [err, len] and the sender result e.serr: the marker it
\* leaves, the packet it hands to the sender (<<>> if none), the value it
\* returns, and whether it reaches a `src->ts_ext += ticks` (source.c:143,
\* 151) and with which ticks
SendAf(s, sampc, e) ==
    IF ~s.ac.ench
    THEN [marker |-> s.rtp_marker, pkt |-> <<>>, err |-> EINVAL,
          adds |-> FALSE, ticks |-> 0]
    ELSE LET marker == s.rtp_marker
             partial == IsPartial(e.err)
             delta == TsDelta(e.err)
             afsampc == IF partial THEN 0 ELSE sampc
             pkt == [marker |-> marker, ts |-> RtpTs(s.ts_ext)]
         IN  IF EncodeFailed(e.err)
             THEN [marker |-> FALSE, pkt |-> <<>>, err |-> e.err,
                   adds |-> FALSE, ticks |-> 0]
             ELSE IF e.len > 0
                  THEN IF e.serr # 0
                       THEN [marker |-> FALSE, pkt |-> <<pkt>>,
                             err |-> e.serr, adds |-> FALSE, ticks |-> 0]
                       ELSE IF delta # 0
                            THEN [marker |-> FALSE, pkt |-> <<pkt>>,
                                  err |-> 0, adds |-> TRUE, ticks |-> delta]
                            ELSE [marker |-> FALSE, pkt |-> <<pkt>>,
                                  err |-> 0, adds |-> TRUE,
                                  ticks |-> FrameTicks(afsampc, s.ac)]
                  ELSE [marker |-> FALSE, pkt |-> <<>>, err |-> e.err,
                        adds |-> TRUE, ticks |-> FrameTicks(afsampc, s.ac)]

\* send_af calls through a null pointer: rtp_mb before setup_buffers
\* allocated it (source.c:118, 501), sendh before start stored it
\* (source.c:136, 672); a codec without encode handler returns before
\* either (source.c:115-116)
SendNull(s, sampc, e) ==
    /\ s.ac.ench
    /\ \/ "rtp_mb" \notin alive
       \/ ~s.sendh /\ SendAf(s, sampc, e).pkt # <<>>

\* source.c:212 on a Source that is not set up yet: the process dies
SendCrash(c, e) ==
    /\ cpc[c] = "send"
    /\ SendNull(src, it[c].sampc, e)
    /\ Crash
    /\ UNCHANGED <<cfg, call, src, alive, aubuf, lock, thr, ret, sent,
                   hist>>

\* source.c:212: send_af up to its update of ts_ext: encode, hand the
\* packet over (source.c:115-139); a run that does not reach the update
\* returns (source.c:153-155)
Send(c, e) ==
    /\ cpc[c] = "send"
    /\ ~SendNull(src, it[c].sampc, e)
    /\ LET r == SendAf(src, it[c].sampc, e)
       IN  /\ IF r.adds
              THEN /\ it' = [it EXCEPT ![c].ld = src.ts_ext,
                                       ![c].ticks = r.ticks]
                   /\ cpc' = [cpc EXCEPT ![c] = "tsadd"]
                   /\ UNCHANGED <<src, thr>>
              ELSE /\ src' = [src EXCEPT !.rtp_marker = r.marker]
                   /\ Finish(c, it[c])
           /\ sent' = IF r.pkt = <<>> THEN sent
                      ELSE [n |-> sent.n + 1,
                            first |-> IF sent.n = 0 THEN r.pkt[1]
                                      ELSE sent.first,
                            last |-> r.pkt[1]]
           /\ hist' = [hist EXCEPT
                         \* 1 once the codec rejected a frame of the
                         \* announcement callback, 2 once a later run
                         \* of that callback handed a packet to the sender
                         !.rej =
                         IF ~src.ac.ench \/ c # "gong" THEN @
                         ELSE IF e.err # 0 /\ ~IsPartial(e.err)
                              THEN IF @ = 0 THEN 1 ELSE @
                         ELSE IF @ = 1 /\ r.pkt # <<>> /\ r.err = 0 THEN 2
                         ELSE @]
    /\ UNCHANGED <<main, cfg, call, alive, aubuf, lock, dpc, ret>>

\* src->ts_ext += ticks and the return (source.c:143 or 151, 153-155).
\* send_af holds no lock here and mcsource_start stores ts_ext at
\* source.c:675 while the drivers already run: the sum is stored from the
\* value loaded before that store or from the one loaded after it
TsStore(c) ==
    /\ cpc[c] = "tsadd"
    /\ \E old \in {it[c].ld, src.ts_ext} :
          src' = [src EXCEPT !.ts_ext = TsAdd(old, it[c].ticks),
                             !.rtp_marker = FALSE]
    /\ Finish(c, it[c])
    /\ UNCHANGED <<main, cfg, call, alive, aubuf, lock, dpc, ret, sent,
                   hist>>

\* ------------------------------------------------------------------------
\* The read and error callbacks of the two audio sources
\* ------------------------------------------------------------------------
\* bytes of the frame a driver opened with prm delivers per callback
DriverBytes(prm) == FrameSampc(prm) * SampleSizeOf(prm.fmt)

\* LoopCond with the bound off by one
LoopCond_OffByOne(i) == i <= MaxPollIter

\* loop condition of the catch-up loop (source.c:254, 312)
LoopCond(i) == i < MaxPollIter

\* MicMuted without the test
MicMuted_Never(s) == FALSE

\* if (src->mic_muted) return; (source.c:246-247)
MicMuted(s) == s.mic_muted

\* src_mic_read_handler up to its loop (source.c:239-253)
MicRead ==
    /\ Delivering("src_mic_st")
    /\ cpc["mic"] = "idle"
    /\ IF MicMuted(src)
       THEN UNCHANGED <<aubuf, cpc, hist>>
       ELSE \* aubuf_write_auframe fails on the null buffer of a Source
            \* whose setup_buffers has not run (source.c:249-251)
            /\ aubuf' = IF "aubuf" \in alive
                        THEN AubufWrite(aubuf, "mic",
                                        DriverBytes(src.mic_prm))
                        ELSE aubuf
            /\ cpc' = [cpc EXCEPT !["mic"] =
                         IF cfg.txmode = "poll" THEN "loop" ELSE "idle"]
            /\ IF "aubuf" \in alive
               THEN /\ hist.calls < MaxCalls
                    /\ hist' = [hist EXCEPT !.calls = @ + 1]
               ELSE UNCHANGED hist
    /\ UNCHANGED <<main, cfg, call, src, alive, lock, it, thr, dpc, ret,
                   sent>>

\* GongDone without the test
GongDone_Never(s) == FALSE

\* if (src->eof) return; (source.c:304-305)
GongDone(s) == s.eof

\* src_gong_read_handler up to its loop (source.c:296-311)
GongRead ==
    /\ Delivering("src_gong_st")
    /\ cpc["gong"] = "idle"
    /\ hist.gongEnd # "err"
    /\ IF GongDone(src)
       THEN UNCHANGED <<aubuf, cpc, hist>>
       ELSE \* as in the capture callback (source.c:307-309)
            /\ aubuf' = IF "aubuf" \in alive
                        THEN AubufWrite(aubuf, "gong",
                                        DriverBytes(src.gong_prm))
                        ELSE aubuf
            /\ cpc' = [cpc EXCEPT !["gong"] =
                         IF cfg.txmode = "poll" THEN "loop" ELSE "idle"]
            /\ IF "aubuf" \in alive
               THEN /\ hist.calls < MaxCalls
                    /\ hist' = [hist EXCEPT !.calls = @ + 1]
               ELSE UNCHANGED hist
    /\ UNCHANGED <<main, cfg, call, src, alive, lock, it, thr, dpc, ret,
                   sent>>

\* package_size as context c computes it: the announcement callback with
\* gong_prm.fmt, the capture callback and the thread with mic_prm.fmt
\* (source.c:242-243, 299-300, 331-332)
Gate(c) ==
    PackageSize(src.ac, IF c = "gong" THEN src.gong_prm.fmt
                        ELSE src.mic_prm.fmt)

\* one pass of the catch-up loop of a read callback (source.c:254-258,
\* 312-316): the bound, the gate and the call of poll_aubuf_tx
PollLoop(c) ==
    /\ c \in {"mic", "gong"}
    /\ cpc[c] = "loop"
    /\ IF LoopCond(it[c].i) /\ CurSize(aubuf) >= Gate(c)
       THEN /\ cpc' = [cpc EXCEPT ![c] = "build"]
            /\ it' = [it EXCEPT ![c].gate = CurSize(aubuf)]
       ELSE /\ cpc' = [cpc EXCEPT ![c] = "idle"]
            /\ it' = [it EXCEPT ![c] = ZeroIt]
    /\ UNCHANGED <<main, cfg, call, src, alive, aubuf, lock, thr, dpc,
                   ret, sent, hist>>

\* what src_gong_err_handler does to the Source for error code err
\* (source.c:275-286)
GongErrSrc(s, err) ==
    IF err = 0
    THEN [s EXCEPT !.resamp = ResampInit, !.eof = TRUE, !.mic_muted = FALSE]
    ELSE s

\* src_gong_err_handler is called (source.c:271-275): err = 0 is the end
\* of the file, for which the handler goes on to mtx_lock (source.c:278);
\* for any other code it returns
GongErr(err) ==
    /\ Delivering("src_gong_st")
    /\ cpc["gong"] = "idle"
    /\ hist.gongEnd = ""
    /\ IF err = 0
       THEN /\ cpc' = [cpc EXCEPT !["gong"] = "err_lock"]
            /\ UNCHANGED <<src, hist>>
       ELSE /\ src' = GongErrSrc(src, err)
            /\ hist' = [hist EXCEPT !.gongEnd = "err"]
            /\ UNCHANGED cpc
    /\ UNCHANGED <<main, cfg, call, alive, aubuf, lock, it, thr, dpc, ret,
                   sent>>

\* the critical section of src_gong_err_handler (source.c:278-283): flush
\* the ring buffer, reset the resampler, set eof, un-mute the microphone
GongErrLock ==
    /\ cpc["gong"] = "err_lock"
    /\ lock = ""
    /\ src' = GongErrSrc(src, 0)
    /\ aubuf' = <<>>
    /\ hist' = [hist EXCEPT !.gongEnd = "eof"]
    /\ cpc' = [cpc EXCEPT !["gong"] = "err_eofh"]
    /\ UNCHANGED <<main, cfg, call, alive, lock, it, thr, dpc, ret, sent>>

\* src->eofh(src->arg) (source.c:285), outside the lock; a call through a
\* null pointer before start stored eofh (source.c:673)
GongErrEofh ==
    /\ cpc["gong"] = "err_eofh"
    /\ IF src.eofh
       THEN /\ cpc' = [cpc EXCEPT !["gong"] = "idle"]
            /\ UNCHANGED <<main, it, dpc>>
       ELSE Crash
    /\ UNCHANGED <<cfg, call, src, alive, aubuf, lock, thr, ret, sent,
                   hist>>

\* ------------------------------------------------------------------------
\* tx_thread (source.c:328-355)
\* ------------------------------------------------------------------------
\* durations sys_msleep(4) can take: the quantum, or longer under load
SleepTimes == {SleepQuantum, PTIME + SleepQuantum}

\* while (re_atomic_rlx(&src->thr.run)) (source.c:335)
ThrWhile ==
    /\ cpc["thr"] = "while"
    /\ IF src.run
       THEN /\ thr.passes < MaxPasses
            /\ thr' = [thr EXCEPT !.passes = @ + 1]
            /\ cpc' = [cpc EXCEPT !["thr"] = "sleep"]
       ELSE /\ cpc' = [cpc EXCEPT !["thr"] = "exited"]
            /\ UNCHANGED thr
    /\ UNCHANGED <<main, cfg, call, src, alive, aubuf, lock, it, dpc,
                   ret, sent, hist>>

\* sys_msleep(4) (source.c:337)
ThrSleep(d) ==
    /\ cpc["thr"] = "sleep"
    /\ thr' = [thr EXCEPT !.now = @ + d]
    /\ cpc' = [cpc EXCEPT !["thr"] = "recheck"]
    /\ UNCHANGED <<main, cfg, call, src, alive, aubuf, lock, it, dpc,
                   ret, sent, hist>>

\* AfterSleep without the re-check of the run flag
AfterSleep_NoRecheck(run) == "sched"

\* what the thread does when it reads the run flag after the sleep
\* (source.c:339-340)
AfterSleep(run) == IF ~run THEN "exited" ELSE "sched"

\* if (!re_atomic_rlx(&src->thr.run)) break; (source.c:339-340)
ThrRecheck ==
    /\ cpc["thr"] = "recheck"
    /\ cpc' = [cpc EXCEPT !["thr"] = AfterSleep(src.run)]
    /\ UNCHANGED <<main, cfg, call, src, alive, aubuf, lock, it, thr,
                   dpc, ret, sent, hist>>

\* ClockAhead without the test
ClockAhead_Never(ts, now) == FALSE

\* if (ts > now) continue; (source.c:345-346)
ClockAhead(ts, now) == ts > now

\* the virtual clock, the gate and the call (source.c:342-351)
ThrSched ==
    /\ cpc["thr"] = "sched"
    /\ LET ts == IF thr.ts = 0 THEN thr.now ELSE thr.ts
           anchor == IF thr.ts = 0 THEN thr.now ELSE thr.anchor
       IN  IF ClockAhead(ts, thr.now)
           THEN /\ thr' = [thr EXCEPT !.ts = ts, !.anchor = anchor]
                /\ cpc' = [cpc EXCEPT !["thr"] = "while"]
                /\ UNCHANGED <<it, hist>>
           ELSE IF CurSize(aubuf) >= Gate("thr")
                THEN /\ thr' = [thr EXCEPT !.ts = ts, !.anchor = anchor,
                                           !.iters = @ + 1]
                     /\ cpc' = [cpc EXCEPT !["thr"] = "build"]
                     /\ it' = [it EXCEPT !["thr"].gate = CurSize(aubuf)]
                     /\ hist' = [hist EXCEPT !.afterStop =
                                   IF src.run THEN @ ELSE @ + 1]
                ELSE /\ thr' = [thr EXCEPT !.ts = ts + PTIME,
                                           !.anchor = anchor]
                     /\ cpc' = [cpc EXCEPT !["thr"] = "while"]
                     /\ UNCHANGED <<it, hist>>
    /\ UNCHANGED <<main, cfg, call, src, alive, aubuf, lock, dpc, ret,
                   sent>>

\* ------------------------------------------------------------------------
\* mcsource_destructor (source.c:69-98), run by the last mem_deref: the
\* owner's, or the one of a failed start (source.c:694-695)
\* ------------------------------------------------------------------------
\* the owner drops its reference to a started Source
Destroy ==
    /\ main = "running"
    /\ main' = "destroying"
    /\ dpc' = "sw"
    /\ UNCHANGED <<cfg, call, src, alive, aubuf, lock, cpc, it, thr,
                   ret, sent, hist>>

\* Joined without waiting for the thread
Joined_NoWait(pcs) == TRUE

\* thrd_join returns when the thread has returned (source.c:77)
Joined(pcs) == pcs["thr"] \in {"exited", "off"}

\* switch (src->cfg->txmode) and the run flag (source.c:73-81). cfg is a
\* null pointer when start failed before source.c:628: the read is
\* undefined, the process crashes or goes on with whatever it read
DSwitch ==
    /\ dpc = "sw"
    /\ IF ~src.cfgSet
       THEN /\ hist' = [hist EXCEPT !.uninit = TRUE]
            /\ \/ dpc' = "crashed" /\ main' = "crashed"
               \/ dpc' = "enc" /\ UNCHANGED main
            /\ UNCHANGED src
       ELSE IF cfg.txmode = "thread" /\ src.run
            THEN /\ src' = [src EXCEPT !.run = FALSE]
                 /\ hist' = [hist EXCEPT !.runFalls = @ + 1,
                                         !.stopAt = cpc["thr"]]
                 /\ dpc' = "join"
                 /\ UNCHANGED main
            ELSE /\ dpc' = "enc"
                 /\ UNCHANGED <<src, hist, main>>
    /\ UNCHANGED <<cfg, call, alive, aubuf, lock, cpc, it, thr, ret,
                   sent>>

\* thrd_join(src->thr.tid, NULL) (source.c:77)
DJoin ==
    /\ dpc = "join"
    /\ Joined(cpc)
    /\ dpc' = "enc"
    /\ UNCHANGED <<main, cfg, call, src, alive, aubuf, lock, cpc, it,
                   thr, ret, sent, hist>>

\* src->enc = mem_deref(src->enc) (source.c:83)
DEnc ==
    /\ dpc = "enc"
    /\ alive' = alive \ {"enc"}
    /\ dpc' = "lock"
    /\ UNCHANGED <<main, cfg, call, src, aubuf, lock, cpc, it, thr, ret,
                   sent, hist>>

\* mtx_lock(&src->lock) and the release of the file name (source.c:85-86);
\* the mutex is uninitialised when mtx_init failed: undefined, the call
\* returns or never does
DLock ==
    /\ dpc = "lock"
    /\ IF "lock" \in alive
       THEN /\ lock = ""
            /\ lock' = "destr"
            /\ alive' = alive \ {"gong_filename"}
            /\ dpc' = "src_gong_st"
            /\ UNCHANGED <<hist, main>>
       ELSE /\ hist' = [hist EXCEPT !.uninit = TRUE]
            /\ \/ /\ lock' = "destr"
                  /\ alive' = alive \ {"gong_filename"}
                  /\ dpc' = "src_gong_st"
                  /\ UNCHANGED main
               \/ /\ dpc' = "crashed"
                  /\ main' = "crashed"
                  /\ UNCHANGED <<lock, alive>>
    /\ UNCHANGED <<cfg, call, src, aubuf, cpc, it, thr, ret, sent>>

\* the context a source handle drives
DriverOf(h) == IF h = "src_gong_st" THEN "gong" ELSE "mic"

\* mem_deref of a source handle, under the lock (source.c:87, 88): the
\* driver is stopped, which waits for a callback in progress to return
DStopSrc ==
    /\ dpc \in {"src_gong_st", "src_mic_st"}
    /\ cpc[DriverOf(dpc)] \in {"idle", "off"}
    /\ alive' = alive \ {dpc}
    /\ cpc' = [cpc EXCEPT ![DriverOf(dpc)] = "off"]
    /\ dpc' = IF dpc = "src_gong_st" THEN "src_mic_st" ELSE "unlock"
    /\ UNCHANGED <<main, cfg, call, src, aubuf, lock, it, thr, ret,
                   sent, hist>>

\* what the destructor releases after the handles (source.c:91-97)
Buffers == {"aubuf", "sampv", "sampv_rs", "rtp_mb", "filtl"}

\* mtx_unlock and the release of the buffers and of the filter chain
\* (source.c:89-97), then the Source itself is freed; the thread (if the
\* destructor joined it) and both drivers have stopped by now
DBuffers ==
    /\ dpc = "unlock"
    /\ lock' = ""
    /\ alive' = alive \ Buffers
    /\ src' = [src EXCEPT !.filtl = <<>>]
    /\ aubuf' = <<>>
    /\ dpc' = "done"
    /\ main' = IF main = "unwinding" THEN "failed" ELSE "dead"
    /\ ret' = [ret EXCEPT !.returned = TRUE]
    /\ UNCHANGED <<cfg, call, cpc, it, thr, sent, hist>>

\* ------------------------------------------------------------------------
\* The specification
\* ------------------------------------------------------------------------
EncResults == [err : EncErrs, len : EncLens, serr : SendErrs]

Next ==
    \/ StartInit(call.ac, call.gong, call.fail)
    \/ StartGong(call.fail)
    \/ StartMic(call.fail)
    \/ StartAubuf(call.fail)
    \/ StartSampv(call.fail)
    \/ StartSampvRs(call.fail)
    \/ StartRtpMb(call.fail)
    \/ StartSendh
    \/ StartEofh
    \/ StartRand(call.rnd)
    \/ StartResamp
    \/ StartFilt
    \/ StartTx(call.fail)
    \/ StartRet
    \/ MicRead
    \/ GongRead
    \/ \E err \in GongErrs : GongErr(err)
    \/ GongErrLock
    \/ GongErrEofh
    \/ \E c \in Ctx : PollLoop(c)
    \/ \E c \in Ctx : Build(c)
    \/ \E c \in Ctx : ReadFrame(c)
    \/ \E c \in Ctx : SetupResamp(c)
    \/ \E c \in Ctx : Convert(c)
    \/ \E c \in Ctx, e \in EncResults : SendCrash(c, e)
    \/ \E c \in Ctx, e \in EncResults : Send(c, e)
    \/ \E c \in Ctx : TsStore(c)
    \/ ThrWhile
    \/ \E d \in SleepTimes : ThrSleep(d)
    \/ ThrRecheck
    \/ ThrSched
    \/ Destroy
    \/ DSwitch
    \/ DJoin
    \/ DEnc
    \/ DLock
    \/ DStopSrc
    \/ DBuffers

Spec == Init /\ [][Next]_vars

\* ------------------------------------------------------------------------
\* Properties
\* ------------------------------------------------------------------------
\* the positions of a context inside poll_aubuf_tx
IterPcs == {"build", "read", "setup", "conv", "send", "tsadd"}
\* the positions after the frame was set up
BuiltPcs == {"read", "setup", "conv", "send", "tsadd"}

\* C1: exactly one packet handed to the sender carries marker = true, the
\* first one; every later packet carries marker = false.
C1_MarkerOnFirstPacketOnly ==
    sent.n >= 1 =>
        /\ sent.first.marker
        /\ sent.n >= 2 => ~sent.last.marker

\* C2: the extended timestamp never decreases from one step to the next,
\* whatever the randomized base.
C2_TsNeverDecreases == [][~U32Less(src.ts_ext', src.ts_ext)]_vars

\* C3: eof is true exactly from the end-of-file callback on and never goes
\* back to false, and an iteration that read eof = true works on a frame of
\* the capture rate and channel count.
C3_EofMonotone ==
    /\ [][src.eof => src.eof']_vars
    /\ [](src.eof <=> hist.gongEnd = "eof")
    /\ [](\A c \in Ctx :
            (cpc[c] \in BuiltPcs /\ it[c].eofRead) =>
                /\ it[c].srate = src.mic_prm.srate
                /\ it[c].ch = src.mic_prm.ch)

\* an iteration that read eof = true is about to encode a capture frame
C3_Witness ==
    \E c \in Ctx : /\ cpc[c] = "send"
                   /\ it[c].eofRead
                   /\ src.eof
                   /\ it[c].got > 0

\* C4: once the announcement source reported end-of-file or an error, the
\* Source has left the announcement state: eof is set and the microphone is
\* not muted.
C4_GongEndUnmutes ==
    hist.gongEnd # "" => (src.eof /\ ~src.mic_muted)

\* C5: a Source started without an announcement builds every frame with the
\* capture rate and channel count, one packet time of samples.
C5_NoGongUsesMic ==
    \A c \in Ctx :
        (~src.gong /\ cpc[c] = "read") =>
            /\ it[c].srate = src.mic_prm.srate
            /\ it[c].ch = src.mic_prm.ch
            /\ it[c].sampc = FrameSampc(src.mic_prm)

\* C6: the first packet handed to the sender carries the base value chosen
\* at start, whatever iterations preceded it.
C6_FirstTsIsBaseAlways ==
    sent.n >= 1 => sent.first.ts = RtpTs(src.ts_base)

\* C7: a failed start stores no handle, returns an error, reads no field
\* that was not initialised while unwinding, joins no thread, and has
\* released every buffer, state and handle when it returns.
C7_FailedStartUnwinds ==
    call.fail # "none" =>
        /\ ~ret.srcp
        /\ ~hist.uninit
        /\ dpc # "join"
        /\ ret.returned => (ret.err # 0 /\ alive \subseteq {"lock"})

\* what the destructor releases after thrd_join (source.c:77): the encoder
\* state of a codec that has one (source.c:83), the file name and the
\* handle of the announcement when there is one (source.c:86, 87), the
\* capture handle (source.c:88), the ring buffer, the scratch buffers
\* sampv and sampv_rs, the staging buffer rtp_mb and the filter chain
\* (source.c:91-97). The mutex is locked and unlocked (source.c:85, 89),
\* never released
ReleasedAfterJoin ==
    (IF src.ac.encupdh THEN {"enc"} ELSE {})
        \cup (IF src.gong THEN {"gong_filename", "src_gong_st"} ELSE {})
        \cup {"src_mic_st"}
        \cup Buffers

\* C8: until the thread has returned, the destructor has released none of
\* the encoder state, ring buffer, scratch buffers, staging buffer and
\* filter chain, nor anything else it releases (it is still before
\* source.c:83) and the mutex the iteration locks is initialised, so no
\* step of an iteration runs after a release; and the run flag went from
\* true to false at most once.
C8_JoinBeforeRelease ==
    /\ cpc["thr"] \notin {"off", "exited"} =>
          /\ ReleasedAfterJoin \subseteq alive
          /\ "lock" \in alive
          /\ dpc \in {"none", "sw", "join"}
    /\ hist.runFalls <= 1

\* the flag was flipped while the thread was inside an iteration, and the
\* teardown has completed
C8_Witness ==
    /\ main = "dead"
    /\ cfg.txmode = "thread"
    /\ hist.stopAt \in IterPcs
    /\ hist.runFalls = 1

\* C9: a read callback runs at most 16 iterations, each begun after the
\* gate saw at least one package in the ring buffer.
C9_PollBurstBounded ==
    \A c \in {"mic", "gong"} :
        /\ it[c].i <= MaxPollIter
        /\ cpc[c] \in IterPcs =>
              /\ it[c].i < MaxPollIter
              /\ it[c].gate >= Gate(c)

\* a callback ran 16 iterations and leaves a backlog behind
C9_Witness ==
    \E c \in {"mic", "gong"} :
        /\ cpc[c] = "loop"
        /\ it[c].i = MaxPollIter
        /\ CurSize(aubuf) >= Gate(c)

\* C10 as stated: the thread begins no iteration after the run flag became
\* false.
C10_NoIterationAfterStop == hist.afterStop = 0

\* C10 amended: after the run flag became false the thread begins at most
\* one iteration, and only if the flag was flipped after the thread's
\* re-check that follows the sleep and before its call of poll_aubuf_tx.
C10_AtMostOneAfterStop ==
    /\ hist.afterStop <= 1
    /\ hist.afterStop = 1 => hist.stopAt = "sched"

\* the flag was flipped during the sleep with a package buffered, and the
\* thread returned without an iteration
C10_Witness ==
    /\ hist.stopAt \in {"sleep", "recheck"}
    /\ cpc["thr"] = "exited"
    /\ hist.afterStop = 0
    /\ CurSize(aubuf) >= Gate("thr")

\* the codec results that are a partial-consume code
PartialResults == {e \in EncResults : IsPartial(e.err)}

\* C11: a run of send_af whose encode result is a partial-consume code
\* hands no packet to the sender and goes on to advance the extended
\* timestamp by exactly the delta of the code, whatever payload length the
\* codec left.
C11_PartialAdvancesByDelta ==
    [][\A c \in Ctx, e \in PartialResults :
          Send(c, e) =>
              /\ sent'.n = sent.n
              /\ cpc'[c] = "tsadd"
              /\ it'[c].ticks = TsDelta(e.err)]_vars

\* the codec results that reject the frame
RejectResults == {e \in EncResults : e.err # 0 /\ ~IsPartial(e.err)}

\* C12: a run of send_af whose encode result rejects the frame hands no
\* packet to the sender, leaves the extended timestamp as it is and returns
\* the codec's error; the caller goes on with its loop and the Source keeps
\* its state, its resources and its run flag.
C12_EncodeFailureDrops ==
    [][\A c \in Ctx, e \in RejectResults :
          Send(c, e) =>
              /\ sent' = sent
              /\ src'.ts_ext = src.ts_ext
              /\ SendAf(src, it[c].sampc, e).err = e.err
              /\ cpc'[c] = IF c = "thr" THEN "while" ELSE "loop"
              /\ main' = main
              /\ alive' = alive
              /\ src'.run = src.run]_vars

\* the codec rejected a frame of the announcement callback and a later
\* iteration of that callback sent a packet
C12_Witness == hist.rej = 2

\* the codec and sender results of a frame that is encoded and sent
SentResults == {e \in EncResults : e.err = 0 /\ e.len > 0 /\ e.serr = 0}

\* C13: a run of send_af that encodes and sends its frame hands the sender
\* the 32-bit value of the extended timestamp as it was before the run, and
\* then goes on to advance the timestamp by one packet time in codec clock
\* ticks, whatever the rates and channel counts of the source and of the
\* codec.
C13_AdvanceIsFrameDuration ==
    [][\A c \in Ctx, e \in SentResults :
          Send(c, e) =>
              /\ sent'.n = sent.n + 1
              /\ sent'.last.ts = RtpTs(src.ts_ext)
              /\ cpc'[c] = "tsadd"
              /\ it'[c].ticks = (PTIME * src.ac.crate) \div 1000]_vars

\* C14: the teardown of a started Source releases the capture handle and
\* the announcement handle before the encoder state, so no read callback is
\* about to call the encoder while the encoder state is released.
C14_HandlesBeforeEncoder ==
    (main \in {"destroying", "dead"} /\ src.ac.encupdh) =>
        /\ "enc" \notin alive =>
              alive \cap {"src_mic_st", "src_gong_st"} = {}
        /\ \A c \in {"mic", "gong"} : cpc[c] = "send" => "enc" \in alive

\* C15: when an iteration is about to call the encoder, every filter of the
\* Source's filter chain has been run on its frame, in the order of the
\* chain.
C15_FiltersBeforeEncode ==
    \A c \in Ctx : cpc[c] = "send" => it[c].filt = src.filtl

\* C16: whenever an iteration is about to convert its frame, the resampler
\* is configured, and configured for the rate and channel count of that
\* frame.
C16_ResamplerMatchesFrame ==
    \A c \in Ctx :
        cpc[c] = "conv" =>
            /\ src.resamp.ratio # 0
            /\ src.resamp.irate = it[c].srate
            /\ src.resamp.ich = it[c].ch

\* C17: the transmit thread is inside an iteration only when its virtual
\* clock is not ahead of the time it read and the gate saw a package in the
\* ring buffer; the clock is the first time read plus a whole number of
\* packet times; the thread began at most one iteration per loop pass, and
\* at most one more than the packet times elapsed since the first time read.
C17_ThreadVirtualClock ==
    /\ cpc["thr"] \in IterPcs =>
          /\ thr.ts <= thr.now
          /\ it["thr"].gate >= Gate("thr")
    /\ thr.iters <= thr.passes
    /\ thr.anchor = 0 => (thr.iters = 0 /\ thr.ts = 0)
    /\ thr.anchor # 0 =>
          /\ thr.ts >= thr.anchor
          /\ (thr.ts - thr.anchor) % PTIME = 0
          /\ thr.iters <= ((thr.now - thr.anchor) \div PTIME) + 1

\* after an iteration the thread passed with a package buffered and did
\* not run, because its virtual clock was ahead
C17_Witness ==
    /\ thr.iters = 1
    /\ thr.passes = 2
    /\ cpc["thr"] = "while"
    /\ thr.ts = thr.anchor + PTIME
    /\ thr.ts > thr.now
    /\ CurSize(aubuf) >= Gate("thr")

\* C18: when an iteration that passed the gate is about to read its frame,
\* the ring buffer holds at least the bytes of the frame it requests.
C18_GatedReadNeverUnderruns ==
    \A c \in Ctx :
        cpc[c] = "read" => CurSize(aubuf) >= it[c].sampc * SampleSize

\* C19: at most one context is inside a pipeline iteration at any time.
C19_OneIterationAtATime ==
    Cardinality({c \in Ctx : cpc[c] \in IterPcs}) <= 1

\* in poll mode the announcement's iteration sent a packet, the
\* announcement ended, and the capture callback is inside an iteration
C19_Witness ==
    /\ cfg.txmode = "poll"
    /\ hist.gongEnd = "eof"
    /\ sent.n >= 1
    /\ cpc["mic"] = "send"
    /\ cpc["gong"] = "idle"

\* C20: the ring buffer never holds data of both sources; for a Source
\* started with an announcement the microphone is muted exactly while eof
\* is false, the buffer holds only announcement data while eof is false and
\* only capture data once eof is true.
C20_BufferNeverMixes ==
    /\ \A i, j \in DOMAIN aubuf : aubuf[i].from = aubuf[j].from
    /\ src.gong =>
          /\ src.mic_muted <=> ~src.eof
          /\ \A i \in DOMAIN aubuf :
                aubuf[i].from = IF src.eof THEN "mic" ELSE "gong"

\* two read callbacks were delivered to a thread-mode Source whose
\* announcement ended, nothing was read from the buffer, and the buffer
\* holds one capture frame and nothing else: what the other callback
\* brought was discarded or flushed
C20_Witness ==
    /\ ret.srcp /\ src.gong
    /\ cfg.txmode = "thread"
    /\ hist.gongEnd = "eof"
    /\ hist.calls = 2
    /\ thr.iters = 0
    /\ Len(aubuf) = 1
    /\ aubuf[1] = [from |-> "mic", n |-> DriverBytes(src.mic_prm)]
====
